---- MODULE Spec2Model ----
(***************************************************************************)
(* A model of the moneybird-python client library:                         *)
(*   moneybird/authentication.py  TokenAuthentication, OAuthAuthentication *)
(*   moneybird/api.py             MoneyBird                                *)
(*                                                                         *)
(* Text is modelled as TLA+ strings, joined with \o.  Where the code takes *)
(* a text apart (the redirect URL in obtain_token, the resource path in    *)
(* _get_url) the text is a sequence of pieces whose concatenation is the   *)
(* text: the delimiters the code looks for are pieces of their own, and no *)
(* other piece contains one.                                               *)
(***************************************************************************)
EXTENDS Naturals, Sequences, FiniteSets, TLC

VARIABLES
    auth_token,     \* TokenAuthentication.auth_token (OAuthAuthentication.real_auth.auth_token)
    constructed,    \* whether a MoneyBird client has been constructed on the strategy
    session,        \* MoneyBird.session: the headers of the client's session
    last            \* the last call made (or the call about to be made) and its outcome

vars == <<auth_token, constructed, session, last>>

(***************************************************************************)
(* Bounds of the model.                                                    *)
(***************************************************************************)
MaxParams == 3      \* query parameters in a redirect URL
MaxSegments == 3    \* "/"-separated segments in a resource path
MaxStatus == 599    \* HTTP status codes run over 100..MaxStatus, plus 999
MaxScopes == 2      \* scopes passed to authorize_url
MaxStateLen == 2    \* pieces of the state passed to authorize_url

(***************************************************************************)
(* Python values: None, str, list of str, dict from str to value.          *)
(***************************************************************************)
None == [t |-> "None"]
Str(s) == [t |-> "str", v |-> s]
List(q) == [t |-> "list", v |-> q]
Int(n) == [t |-> "int", v |-> n]
Dict(f) == [t |-> "dict", v |-> f]

\* bool(x)
Truthy(x) ==
    CASE x.t = "None" -> FALSE
      [] x.t = "str"  -> x.v # ""
      [] x.t = "list" -> Len(x.v) # 0
      [] x.t = "int"  -> x.v # 0
      [] x.t = "dict" -> DOMAIN x.v # {}

\* sep.join(q) for a sequence of strings
RECURSIVE Join(_, _)
Join(sep, q) ==
    IF Len(q) = 0 THEN ""
    ELSE IF Len(q) = 1 THEN q[1]
    ELSE q[1] \o sep \o Join(sep, Tail(q))

\* ''.join(q): the text a sequence of pieces stands for
Text(q) == Join("", q)

\* a str whose text is taken apart: the text with the pieces it is made of
StrOf(q) == [t |-> "str", v |-> Text(q), p |-> q]

Digit == <<"0", "1", "2", "3", "4", "5", "6", "7", "8", "9">>

\* str(n) for an int n >= 0
RECURSIVE IntToStr(_)
IntToStr(n) ==
    IF n < 10 THEN Digit[n + 1] ELSE IntToStr(n \div 10) \o Digit[(n % 10) + 1]

\* repr of the strings of a list, as '%s' prints a list
ReprAll(q) == [i \in 1..Len(q) |-> "'" \o q[i] \o "'"]

\* '%s' % x
Format(x) ==
    CASE x.t = "None" -> "None"
      [] x.t = "str"  -> x.v
      [] x.t = "int"  -> IntToStr(x.v)
      [] x.t = "list" -> "[" \o Join(", ", ReprAll(x.v)) \o "]"
      [] x.t = "dict" -> IF DOMAIN x.v = {} THEN "{}" ELSE "{...}"

\* pieces.split(sep, 1): the pieces before the first sep and those after it,
\* or the whole as the only element when there is no sep
SplitOnce(q, sep) ==
    IF \E i \in 1..Len(q) : q[i] = sep
    THEN LET i == CHOOSE i \in 1..Len(q) :
                      q[i] = sep /\ \A j \in 1..(i - 1) : q[j] # sep
         IN  <<SubSeq(q, 1, i - 1), SubSeq(q, i + 1, Len(q))>>
    ELSE <<q>>

\* pieces.split(sep)
RECURSIVE Split(_, _)
Split(q, sep) ==
    LET two == SplitOnce(q, sep)
    IN  IF Len(two) = 1 THEN two ELSE <<two[1]>> \o Split(two[2], sep)

(***************************************************************************)
(* urllib.parse.parse_qs with its defaults (keep_blank_values=False,       *)
(* strict_parsing=False, separator '&'), on text without '%' and '+'.      *)
(***************************************************************************)
\* parse_qsl: the (name, value) pairs, in order
RECURSIVE QslOf(_)
QslOf(fields) ==
    IF Len(fields) = 0 THEN <<>>
    ELSE LET nv == SplitOnce(Head(fields), "=")
             rest == QslOf(Tail(fields))
         IN  IF Len(nv) # 2 THEN rest
             ELSE IF Text(nv[2]) = "" THEN rest
             ELSE << [name |-> Text(nv[1]), value |-> Text(nv[2])] >> \o rest

parse_qsl(qs) == QslOf(Split(qs, "&"))

\* the values of the pairs named k, in order
RECURSIVE ValuesOf(_, _)
ValuesOf(pairs, k) ==
    IF Len(pairs) = 0 THEN <<>>
    ELSE (IF Head(pairs).name = k THEN <<Head(pairs).value>> ELSE <<>>)
         \o ValuesOf(Tail(pairs), k)

parse_qs(qs) ==
    LET pairs == parse_qsl(qs)
    IN  [k \in {pairs[i].name : i \in 1..Len(pairs)} |-> ValuesOf(pairs, k)]

(***************************************************************************)
(* URLs and urllib.parse.urljoin                                            *)
(*                                                                         *)
(* A path is the sequence of its "/"-separated segments (path.split('/')): *)
(* "/api/" is <<"", "api", "">>, "" is <<"">>.  A URL is its scheme, its   *)
(* network location and its path.                                          *)
(***************************************************************************)
\* the text of a path
PathText(segs) == Join("/", segs)

\* urlunparse: the text of a URL with a scheme of uses_netloc
UrlText(u) ==
    LET p == PathText(u.path)
    IN  u.scheme \o "://" \o u.netloc
        \o (IF p # "" /\ ~(Len(u.path) >= 2 /\ u.path[1] = "") THEN "/" \o p ELSE p)

\* urlparse of a reference that has no scheme, query or fragment: a leading
\* "//" starts a network location, which ends at the next "/"
RefNetloc(ref) == IF Len(ref) >= 3 /\ ref[1] = "" /\ ref[2] = "" THEN ref[3] ELSE ""
RefPath(ref) ==
    IF Len(ref) >= 3 /\ ref[1] = "" /\ ref[2] = ""
    THEN (IF Len(ref) = 3 THEN <<"">> ELSE <<"">> \o SubSeq(ref, 4, Len(ref)))
    ELSE ref

\* base_parts: the base path without its last segment, unless that is empty
BaseParts(bpath) ==
    IF bpath[Len(bpath)] # "" THEN SubSeq(bpath, 1, Len(bpath) - 1) ELSE bpath

\* segments[1:-1] = filter(None, segments[1:-1])
DropInnerEmpty(segs) ==
    IF Len(segs) <= 2 THEN segs
    ELSE <<segs[1]>>
         \o SelectSeq(SubSeq(segs, 2, Len(segs) - 1), LAMBDA x : x # "")
         \o <<segs[Len(segs)]>>

\* the loop over the segments: ".." pops (nothing, when nothing is left),
\* "." is skipped, anything else is appended
RECURSIVE Resolve(_, _)
Resolve(resolved, segs) ==
    IF Len(segs) = 0 THEN resolved
    ELSE IF Head(segs) = ".."
    THEN Resolve(IF Len(resolved) = 0 THEN resolved
                 ELSE SubSeq(resolved, 1, Len(resolved) - 1), Tail(segs))
    ELSE IF Head(segs) = "." THEN Resolve(resolved, Tail(segs))
    ELSE Resolve(Append(resolved, Head(segs)), Tail(segs))

\* the path urlunparse writes after a network location: "/" is put before a
\* path that does not start with one
Rooted(segs) ==
    IF PathText(segs) = "" THEN <<"", "">>
    ELSE IF Len(segs) >= 2 /\ segs[1] = "" THEN segs
    ELSE <<"">> \o segs

\* urllib.parse.urljoin(base, url), for a base with a network location and a
\* reference without scheme, query or fragment; the result as a parsed URL
urljoin(base, ref) ==
    IF PathText(ref) = "" THEN base
    ELSE IF RefNetloc(ref) # ""
    THEN [scheme |-> base.scheme, netloc |-> RefNetloc(ref),
          path |-> IF PathText(RefPath(ref)) = "" THEN <<"">> ELSE RefPath(ref)]
    ELSE IF PathText(RefPath(ref)) = "" THEN base
    ELSE LET path == RefPath(ref)
             segments == IF Len(path) >= 2 /\ path[1] = "" THEN path
                         ELSE DropInnerEmpty(BaseParts(base.path) \o path)
             resolved == Resolve(<<>>, segments)
             final == IF segments[Len(segments)] \in {".", ".."}
                      THEN Append(resolved, "") ELSE resolved
         IN  [scheme |-> base.scheme, netloc |-> base.netloc, path |-> Rooted(final)]

(***************************************************************************)
(* TokenAuthentication                                                     *)
(***************************************************************************)
\* is_ready testing "is not None" instead of truth: an empty token counts as ready
is_ready_not_none == TRUE

\* TokenAuthentication.is_ready / OAuthAuthentication.is_ready
is_ready == Truthy(Str(auth_token))

\* the version of requests that setup.py's install_requires brings in
requests_version == "2.31.0"

\* the headers of a new requests.Session (requests.utils.default_headers)
SessionDefaults ==
    ("User-Agent" :> ("python-requests/" \o requests_version))
    @@ ("Accept-Encoding" :> "gzip, deflate")
    @@ ("Accept" :> "*/*")
    @@ ("Connection" :> "keep-alive")

\* d.update(e) on dicts
Update(d, e) == e @@ d

\* TokenAuthentication.get_session / OAuthAuthentication.get_session, for
\* the token tok
SessionFor(tok) == Update(SessionDefaults, "Authorization" :> ("Bearer " \o tok))

get_session == SessionFor(auth_token)

\* set_token that keeps a token that is already there
set_token_if_unset(tok) == auth_token' = IF auth_token = "" THEN tok ELSE auth_token

\* TokenAuthentication.set_token
set_token(tok) == auth_token' = tok

(***************************************************************************)
(* OAuthAuthentication                                                     *)
(***************************************************************************)
\* the constructor's arguments (those of the repository's tests)
redirect_url_config == "https://example.test/login/oauth/"
client_id == "test_client"
client_secret == "test_secret"

\* urlparse of OAuthAuthentication.base_url, 'https://moneybird.com/oauth/'
oauth_base_url == [scheme |-> "https", netloc |-> "moneybird.com", path |-> <<"", "oauth", "">>]

\* OAuthAuthentication.token_url, 'token/', as a path
token_url == <<"token", "">>


\* a raised exception other than OAuthError
Raise(exc, msg) == [kind |-> "raise", exc |-> exc, msg |-> msg]

\* a normal return
Return(v) == [kind |-> "return", value |-> v]

\* OAuthAuthentication.OAuthError.__init__, raised
OAuthError(error_code, description) ==
    LET code == IF ~Truthy(error_code) THEN Str("unknown") ELSE error_code
        desc == IF ~Truthy(description) THEN Str("Unknown reason") ELSE description
    IN  [kind |-> "raise", exc |-> "OAuthError", error_code |-> code,
         msg |-> "OAuth error (" \o Format(code) \o "): " \o Format(desc)]

\* d.get(k, default) on the dict parse_qs returns (its values are lists)
GetList(d, k, default) == IF k \in DOMAIN d THEN List(d[k]) ELSE default

\* the checks of the redirect without the comparison of the state
RedirectCheckStateOptional(redirect_url, state) ==
    LET parts == SplitOnce(redirect_url, "?")
    IN  IF Len(parts) < 2 THEN Raise("IndexError", "list index out of range")
        ELSE LET url_data == parse_qs(parts[2])
             IN  IF "error" \in DOMAIN url_data
                 THEN OAuthError(List(url_data["error"]),
                                 GetList(url_data, "error_description", None))
                 ELSE IF "code" \notin DOMAIN url_data
                 THEN Raise("ValueError",
                            "The provided URL is not a valid OAuth authentication response: no code")
                 ELSE [kind |-> "pass", code |-> url_data["code"][1]]

\* obtain_token up to the token request: the exception raised, or the code
\* to exchange
RedirectCheck(redirect_url, state) ==
    LET parts == SplitOnce(redirect_url, "?")
    IN  IF Len(parts) < 2 THEN Raise("IndexError", "list index out of range")
        ELSE LET url_data == parse_qs(parts[2])
             IN  IF "error" \in DOMAIN url_data
                 THEN OAuthError(List(url_data["error"]),
                                 GetList(url_data, "error_description", None))
                 ELSE IF "code" \notin DOMAIN url_data
                 THEN Raise("ValueError",
                            "The provided URL is not a valid OAuth authentication response: no code")
                 ELSE IF state # "" /\ "state" \notin DOMAIN url_data
                 THEN Raise("KeyError", "'state'")
                 ELSE IF state # "" /\ <<state>> # url_data["state"]
                 THEN Raise("ValueError",
                            "CSRF attack detected: the state in the provided URL does not equal the given state")
                 ELSE [kind |-> "pass", code |-> url_data["code"][1]]

\* the POST to the token endpoint
TokenRequest(code) ==
    [url |-> UrlText(urljoin(oauth_base_url, token_url)),
     grant_type |-> "authorization_code",
     code |-> code,
     redirect_uri |-> redirect_url_config,
     client_id |-> client_id,
     client_secret |-> client_secret]

\* a response body: text that does not decode as JSON, or the decoded value
NotJson == [json |-> FALSE]
Json(value) == [json |-> TRUE, value |-> value]

\* type(x).__name__
TypeName(x) ==
    CASE x.t = "None" -> "NoneType"
      [] x.t = "str"  -> "str"
      [] x.t = "list" -> "list"
      [] x.t = "int"  -> "int"
      [] x.t = "dict" -> "dict"

\* k in r, for a str, list or dict r: a substring of the text, an element of
\* the list, a key of the dict
In(k, r) ==
    CASE r.t = "str"  -> \E i \in 1..Len(r.p) : \E j \in i..Len(r.p) :
                             Text(SubSeq(r.p, i, j)) = k
      [] r.t = "list" -> \E i \in 1..Len(r.v) : r.v[i] = k
      [] r.t = "dict" -> k \in DOMAIN r.v

\* r[k] for a str key k on a str or list r
SubscriptError(r) ==
    Raise("TypeError",
          IF r.t = "str" THEN "string indices must be integers, not 'str'"
          ELSE "list indices must be integers or slices, not str")

\* obtain_token from the token endpoint's response on; the decoded JSON may
\* be any value, not only an object
Exchange(response) ==
    IF ~response.json
    THEN Raise("ValueError",
               "The OAuth server returned an invalid response when obtaining a token: JSON error")
    ELSE LET r == response.value
         IN  IF r.t \notin {"str", "list", "dict"}
             THEN Raise("TypeError",
                        "argument of type '" \o TypeName(r) \o "' is not iterable")
             ELSE IF In("error", r)
             THEN IF r.t = "dict" THEN OAuthError(r.v["error"], r.v["error"])
                  ELSE SubscriptError(r)
             ELSE IF ~In("access_token", r)
             THEN Raise("ValueError",
                        "The remote server returned an invalid response when obtaining a token: no access token")
             ELSE IF r.t = "dict" THEN Return(r.v["access_token"])
                  ELSE SubscriptError(r)

\* no request was sent, so there is no response
NoResponse == [json |-> FALSE, sent |-> FALSE]

\* obtain_token storing the response's access_token before it looks at the
\* rest of the response
ObtainTokenStoringEarly(redirect_url, state, response) ==
    LET chk == RedirectCheck(redirect_url, state)
    IN  /\ IF chk.kind # "pass"
           THEN /\ last' = [op |-> "obtain_token", redirect_url |-> redirect_url,
                            state |-> state, posts |-> <<>>,
                            response |-> NoResponse, out |-> chk]
                /\ UNCHANGED auth_token
           ELSE LET out == Exchange(response)
                IN  /\ last' = [op |-> "obtain_token", redirect_url |-> redirect_url,
                                state |-> state, posts |-> <<TokenRequest(chk.code)>>,
                                response |-> response, out |-> out]
                    /\ IF /\ response.json
                          /\ response.value.t = "dict"
                          /\ "access_token" \in DOMAIN response.value.v
                       THEN set_token(response.value.v["access_token"].v)
                       ELSE UNCHANGED auth_token
        /\ UNCHANGED <<constructed, session>>

\* OAuthAuthentication.obtain_token
ObtainToken(redirect_url, state, response) ==
    LET chk == RedirectCheck(redirect_url, state)
    IN  /\ IF chk.kind # "pass"
           THEN /\ last' = [op |-> "obtain_token", redirect_url |-> redirect_url,
                            state |-> state, posts |-> <<>>,
                            response |-> NoResponse, out |-> chk]
                /\ UNCHANGED auth_token
           ELSE LET out == Exchange(response)
                IN  /\ last' = [op |-> "obtain_token", redirect_url |-> redirect_url,
                                state |-> state, posts |-> <<TokenRequest(chk.code)>>,
                                response |-> response, out |-> out]
                    /\ IF out.kind = "return"
                       THEN set_token(out.value.v)
                       ELSE UNCHANGED auth_token
        /\ UNCHANGED <<constructed, session>>

(***************************************************************************)
(* The inputs of obtain_token.                                             *)
(***************************************************************************)
RedirectBase == "https://example.test/login/oauth/"
QueryKeys == {"code", "state", "error", "error_description"}
QueryVals == {"", "abc", "xyz"}
Params == [k : QueryKeys, v : QueryVals]
ParamLists == UNION {[1..n -> Params] : n \in 0..MaxParams}

\* the pieces of k=v&k=v...
RECURSIVE QueryPieces(_)
QueryPieces(ps) ==
    IF Len(ps) = 0 THEN <<>>
    ELSE <<Head(ps).k, "=", Head(ps).v>>
         \o (IF Len(ps) = 1 THEN <<>> ELSE <<"&">> \o QueryPieces(Tail(ps)))

\* redirect URLs: one without a query string, and one for every parameter list
RedirectUrls ==
    {<<RedirectBase>>} \cup {<<RedirectBase, "?">> \o QueryPieces(ps) : ps \in ParamLists}

\* the state the caller expects
States == {"", "abc"}

\* the token endpoint's responses: not JSON, an object with or without an
\* error and an access_token, or JSON that is not an object
ErrorVals == {"", "invalid_grant"}
AccessTokenVals == {"", "tokA"}
TokenObjects ==
    {f \in UNION {[D -> ErrorVals \cup AccessTokenVals] : D \in SUBSET {"error", "access_token"}} :
        /\ "error" \in DOMAIN f => f["error"] \in ErrorVals
        /\ "access_token" \in DOMAIN f => f["access_token"] \in AccessTokenVals}
TokenNonObjects ==
    {None, Int(5), List(<<>>), List(<<"error">>),
     StrOf(<<"access_token">>), StrOf(<<"abc">>)}
TokenResponses ==
    {NotJson}
    \cup {Json(Dict([k \in DOMAIN f |-> Str(f[k])])) : f \in TokenObjects}
    \cup {Json(v) : v \in TokenNonObjects}

\* the tokens a strategy is constructed with or set to
Tokens == {"", "tokA", "tokB"}

(***************************************************************************)
(* SpecOAuth: one call of obtain_token on every input.                     *)
(***************************************************************************)
InitOAuth ==
    /\ auth_token \in {"", "tokB"}
    /\ constructed = FALSE
    /\ session = <<>>
    /\ \E u \in RedirectUrls, s \in States :
          last = [op |-> "call obtain_token", redirect_url |-> u, state |-> s]

\* what the token endpoint may answer to a call: any response to the request
\* the call sends; a call that sends no request gets no response
ResponsesTo(redirect_url, state) ==
    IF RedirectCheck(redirect_url, state).kind = "pass" THEN TokenResponses
    ELSE {NoResponse}

ObtainTokenCall ==
    /\ last.op = "call obtain_token"
    /\ \E r \in ResponsesTo(last.redirect_url, last.state) :
          ObtainToken(last.redirect_url, last.state, r)

NextOAuth == ObtainTokenCall

SpecOAuth == InitOAuth /\ [][NextOAuth]_vars

(***************************************************************************)
(* OAuthAuthentication.authorize_url                                       *)
(*                                                                         *)
(* The texts that go into the query string are sequences of pieces: every  *)
(* character urlencode does not leave alone is a piece of its own.         *)
(***************************************************************************)
\* the constructor's redirect_url and client_id, in pieces
redirect_url_pieces ==
    <<"https", ":", "/", "/", "example.test", "/", "login", "/", "oauth", "/">>
client_id_pieces == <<"test_client">>

\* OAuthAuthentication.auth_url, 'authorize/', as a path
auth_url == <<"authorize", "">>

\* urllib.parse.quote_plus on one piece
QuotePiece(c) ==
    CASE c = " " -> "+"
      [] c = "+" -> "%2B"
      [] c = "&" -> "%26"
      [] c = "=" -> "%3D"
      [] c = ":" -> "%3A"
      [] c = "/" -> "%2F"
      [] c = "?" -> "%3F"
      [] c = "%" -> "%25"
      [] OTHER -> c

\* urllib.parse.quote_plus
quote_plus(q) == [i \in 1..Len(q) |-> QuotePiece(q[i])]

\* urllib.parse.urlencode of a dict, given as its (name, value) items in order
RECURSIVE urlencode(_)
urlencode(items) ==
    IF Len(items) = 0 THEN <<>>
    ELSE <<Head(items)[1], "=">> \o quote_plus(Head(items)[2])
         \o (IF Len(items) = 1 THEN <<>> ELSE <<"&">> \o urlencode(Tail(items)))

\* ' '.join(scope), in pieces
RECURSIVE JoinScopes(_)
JoinScopes(scope) ==
    IF Len(scope) = 0 THEN <<>>
    ELSE IF Len(scope) = 1 THEN <<scope[1]>>
    ELSE <<scope[1], " ">> \o JoinScopes(Tail(scope))

\* OAuthAuthentication._generate_state: str(uuid.uuid4()).replace('-', ''),
\* for the pieces of the uuid's text
_generate_state(uuid) == StrOf(<<Text(SelectSeq(uuid, LAMBDA c : c # "-"))>>)

\* the state replaced whenever it is false, an empty one included
StateUsedIfTruthy(state, uuid) == IF Truthy(state) THEN state ELSE _generate_state(uuid)

\* state if state is not None else self._generate_state()
StateUsed(state, uuid) == IF state # None THEN state ELSE _generate_state(uuid)

\* OAuthAuthentication.authorize_url: the 2-tuple it returns
AuthorizeUrl(scope, state, uuid) ==
    LET url == UrlText(urljoin(oauth_base_url, auth_url))
        used == StateUsed(state, uuid)
        params == <<
            <<"response_type", <<"code">> >>,
            <<"client_id", client_id_pieces>>,
            <<"redirect_uri", redirect_url_pieces>>,
            <<"scope", JoinScopes(scope)>>,
            <<"state", used.p>> >>
    IN  [url |-> <<url, "?">> \o urlencode(params), state |-> used]

\* what authorize_url is called with, and what uuid4 gives
ScopeVals == {"one", "two"}
ScopeLists == UNION {[1..n -> ScopeVals] : n \in 0..MaxScopes}
StatePieces == {"random_string", "&", "=", " ", "+"}
StateArgs ==
    {None} \cup {StrOf(q) : q \in UNION {[1..n -> StatePieces] : n \in 0..MaxStateLen}}
Uuids ==
    {<<"0f8fad5b", "-", "d9cb", "-", "469f", "-", "a165", "-", "70867728950e">>,
     <<"7c9e6679", "-", "7425", "-", "40de", "-", "944b", "-", "e07fc1a90ae7">>}

\* a call of authorize_url
AuthorizeUrlOn(scope, state) ==
    /\ \E uuid \in Uuids :
          last' = [op |-> "authorize_url", scope |-> scope, state |-> state,
                   out |-> Return(AuthorizeUrl(scope, state, uuid))]
    /\ UNCHANGED <<auth_token, constructed, session>>

(***************************************************************************)
(* SpecAuthorize: one call of authorize_url on every input.                *)
(***************************************************************************)
InitAuthorize ==
    /\ auth_token \in Tokens
    /\ constructed = FALSE
    /\ session = <<>>
    /\ \E sc \in ScopeLists, st \in StateArgs :
          last = [op |-> "call authorize_url", scope |-> sc, state |-> st]

AuthorizeUrlCall ==
    /\ last.op = "call authorize_url"
    /\ AuthorizeUrlOn(last.scope, last.state)

NextAuthorize == AuthorizeUrlCall

SpecAuthorize == InitAuthorize /\ [][NextAuthorize]_vars

(***************************************************************************)
(* MoneyBird: URL construction                                             *)
(***************************************************************************)
version == "v2"

\* urlparse of MoneyBird.base_url, 'https://moneybird.com/api/'
base_url == [scheme |-> "https", netloc |-> "moneybird.com", path |-> <<"", "api", "">>]

\* ('%s' + suffix) % segs: the path with the suffix at its end
WithSuffix(segs, suffix) ==
    SubSeq(segs, 1, Len(segs) - 1) \o <<segs[Len(segs)] \o suffix>>

\* MoneyBird._get_url
\* administration_id is None or an int; resource_path is a path
GetUrl(administration_id, resource_path) ==
    LET url1 == urljoin(base_url, <<version, "">>)
        url2 == IF administration_id # None
                THEN urljoin(url1, <<Format(administration_id), "">>)
                ELSE url1
    IN  UrlText(urljoin(url2, WithSuffix(resource_path, ".json")))

(***************************************************************************)
(* MoneyBird: response classification                                      *)
(***************************************************************************)
\* the table with 403 filed under Unauthorized and 406 forgotten
responses_misfiled ==
    (200 :> "None") @@ (201 :> "None") @@ (204 :> "None")
    @@ (400 :> "Unauthorized") @@ (401 :> "Unauthorized")
    @@ (403 :> "Unauthorized") @@ (404 :> "NotFound")
    @@ (422 :> "InvalidData") @@ (429 :> "Throttled") @@ (500 :> "ServerError")

\* the responses table of _process_response
responses ==
    (200 :> "None") @@ (201 :> "None") @@ (204 :> "None")
    @@ (400 :> "Unauthorized") @@ (401 :> "Unauthorized")
    @@ (403 :> "Throttled") @@ (404 :> "NotFound") @@ (406 :> "NotFound")
    @@ (422 :> "InvalidData") @@ (429 :> "Throttled") @@ (500 :> "ServerError")

\* APIError testing the description with "is not None": an empty error
\* field is written into the message
APIErrorUnlessNone(class, response, description) ==
    [kind |-> "raise", exc |-> class, status_code |-> response.status_code,
     description |-> description,
     msg |-> "API error " \o IntToStr(response.status_code)
             \o (IF description # None THEN ": " \o Format(description) ELSE "")]

\* MoneyBird.APIError.__init__ (and its subclasses'), raised
APIError(class, response, description) ==
    [kind |-> "raise", exc |-> class, status_code |-> response.status_code,
     description |-> description,
     msg |-> "API error " \o IntToStr(response.status_code)
             \o (IF Truthy(description) THEN ": " \o Format(description) ELSE "")]

\* response.json()['error'], None when that raises AttributeError, TypeError,
\* KeyError or ValueError
ErrorDescription(body) ==
    IF ~body.json THEN None
    ELSE IF body.value.t # "dict" THEN None
    ELSE IF "error" \notin DOMAIN body.value.v THEN None
    ELSE body.value.v["error"]

\* MoneyBird._process_response; expected is the set of the list's elements
ProcessResponse(response, expected) ==
    IF response.status_code \notin expected /\ response.status_code \notin DOMAIN responses
    THEN APIError("APIError", response, Str("API response contained unknown status code"))
    ELSE IF response.status_code \notin expected /\ responses[response.status_code] # "None"
    THEN APIError(responses[response.status_code], response, ErrorDescription(response.body))
    ELSE Return(IF response.body.json THEN response.body.value ELSE None)

(***************************************************************************)
(* The inputs of _get_url and _process_response.                           *)
(***************************************************************************)
SegmentVals == {"", ".", "..", "contacts", "123"}
ResourcePaths == UNION {[1..n -> SegmentVals] : n \in 1..MaxSegments}
AdministrationIds == {None, Int(0), Int(123)}

StatusCodes == (100..MaxStatus) \cup {999}
ErrorFieldVals == {Str(""), Str("bad"), None, Int(0), Int(5), List(<<"x">>)}
Bodies ==
    {NotJson, Json(None), Json(Int(5)), Json(Str("error")), Json(List(<<>>)),
     Json(List(<<"error">>)), Json(Dict(<<>>)), Json(Dict("id" :> Str("1")))}
    \cup {Json(Dict("error" :> e)) : e \in ErrorFieldVals}

(***************************************************************************)
(* SpecUrl: _get_url on every input.                                       *)
(***************************************************************************)
InitUrl ==
    /\ auth_token = ""
    /\ constructed = FALSE
    /\ session = <<>>
    /\ \E a \in AdministrationIds, p \in ResourcePaths :
          last = [op |-> "call _get_url", administration_id |-> a, resource_path |-> p]

GetUrlCall ==
    /\ last.op = "call _get_url"
    /\ last' = [op |-> "_get_url", administration_id |-> last.administration_id,
                resource_path |-> last.resource_path,
                out |-> Return(Str(GetUrl(last.administration_id, last.resource_path)))]
    /\ UNCHANGED <<auth_token, constructed, session>>

NextUrl == GetUrlCall

SpecUrl == InitUrl /\ [][NextUrl]_vars

(***************************************************************************)
(* SpecResponse: _process_response, as get/post/patch/delete call it, on   *)
(* every response.                                                         *)
(***************************************************************************)
InitResponse ==
    /\ auth_token = ""
    /\ constructed = FALSE
    /\ session = <<>>
    /\ \E s \in StatusCodes, b \in Bodies :
          last = [op |-> "call _process_response",
                  response |-> [status_code |-> s, body |-> b]]

ProcessResponseCall ==
    /\ last.op = "call _process_response"
    /\ last' = [op |-> "_process_response", response |-> last.response,
                out |-> ProcessResponse(last.response, {})]
    /\ UNCHANGED <<auth_token, constructed, session>>

NextResponse == ProcessResponseCall

SpecResponse == InitResponse /\ [][NextResponse]_vars

(***************************************************************************)
(* MoneyBird: the client and its session                                   *)
(***************************************************************************)
VERSION == "0.1.3"

\* the headers renew_session puts on the new session
ClientHeaders ==
    ("User-Agent" :> ("MoneyBird for Python " \o VERSION)) @@ ("Accept" :> "application/json")

\* renew_session that puts the headers on the session it has, and asks the
\* strategy for one only when it has none
renew_session_reusing ==
    session' = IF constructed THEN Update(session, ClientHeaders)
               ELSE Update(get_session, ClientHeaders)

\* MoneyBird.renew_session
renew_session == session' = Update(get_session, ClientHeaders)

\* MoneyBird.__init__
Construct ==
    /\ ~constructed
    /\ constructed' = TRUE
    /\ renew_session
    /\ last' = [op |-> "__init__"]
    /\ UNCHANGED auth_token

RenewSession ==
    /\ constructed
    /\ renew_session
    /\ last' = [op |-> "renew_session"]
    /\ UNCHANGED <<auth_token, constructed>>

\* a call of TokenAuthentication.set_token
SetToken ==
    /\ \E tok \in Tokens :
          /\ set_token(tok)
          /\ last' = [op |-> "set_token", auth_token |-> tok]
    /\ UNCHANGED <<constructed, session>>

\* session.get/post/patch/delete(url=..., json=...) and _process_response on
\* the response that comes back
Request(method, resource_path, data, administration_id, response) ==
    /\ constructed
    /\ last' = [op |-> method,
                request |-> [method |-> method,
                             url |-> GetUrl(administration_id, resource_path),
                             headers |-> session,
                             json |-> data],
                response |-> response,
                out |-> ProcessResponse(response, {})]
    /\ UNCHANGED <<auth_token, constructed, session>>

\* what the calls of the interleaving are made with
SomePaths == {<<"contacts">>, <<"contacts", "123">>}
SomeAdministrationIds == {None, Int(123)}
SomeData == {Dict("contact" :> Str("John"))}
SomeResponses ==
    {[status_code |-> s, body |-> b] :
        s \in {200, 404, 999}, b \in {NotJson, Json(Dict("error" :> Str("bad")))}}
SomeRedirects ==
    {<<RedirectBase>>,
     <<RedirectBase, "?", "error", "=", "abc">>,
     <<RedirectBase, "?", "code", "=", "abc">>,
     <<RedirectBase, "?", "state", "=", "abc">>,
     <<RedirectBase, "?", "code", "=", "abc", "&", "state", "=", "abc">>,
     <<RedirectBase, "?", "code", "=", "abc", "&", "state", "=", "xyz">>}

\* MoneyBird.get
Get ==
    \E p \in SomePaths, a \in SomeAdministrationIds, r \in SomeResponses :
        Request("get", p, None, a, r)

\* MoneyBird.post
Post ==
    \E p \in SomePaths, d \in SomeData, a \in SomeAdministrationIds, r \in SomeResponses :
        Request("post", p, d, a, r)

\* MoneyBird.patch
Patch ==
    \E p \in SomePaths, d \in SomeData, a \in SomeAdministrationIds, r \in SomeResponses :
        Request("patch", p, d, a, r)

\* MoneyBird.delete
Delete ==
    \E p \in SomePaths, a \in SomeAdministrationIds, r \in SomeResponses :
        Request("delete", p, None, a, r)

\* a call of OAuthAuthentication.authorize_url
AuthorizeUrlAny ==
    \E sc \in {<<"one", "two">>}, st \in {None, StrOf(<<"random_string">>)} :
        AuthorizeUrlOn(sc, st)

\* a call of OAuthAuthentication.obtain_token
ObtainTokenAny ==
    \E u \in SomeRedirects, s \in States :
        \E r \in ResponsesTo(u, s) : ObtainToken(u, s, r)

(***************************************************************************)
(* Spec: a strategy constructed with any token, a client constructed on    *)
(* it, and any interleaving of the calls.                                  *)
(***************************************************************************)
\* TokenAuthentication.__init__ / OAuthAuthentication.__init__
Init ==
    /\ \E tok \in Tokens :
          /\ auth_token = tok
          /\ last = [op |-> "new", auth_token |-> tok]
    /\ constructed = FALSE
    /\ session = <<>>

Next ==
    \/ Construct
    \/ RenewSession
    \/ SetToken
    \/ AuthorizeUrlAny
    \/ ObtainTokenAny
    \/ Get
    \/ Post
    \/ Patch
    \/ Delete

Spec == Init /\ [][Next]_vars

(***************************************************************************)
(* Claims                                                                  *)
(***************************************************************************)
\* what a redirect URL carries: the parameters of its query string, if it
\* has one
QueryOf(redirect_url) ==
    IF Len(SplitOnce(redirect_url, "?")) = 2 THEN SplitOnce(redirect_url, "?")[2] ELSE <<>>
Carries(redirect_url, k) == k \in DOMAIN parse_qs(QueryOf(redirect_url))
Carried(redirect_url, k) == parse_qs(QueryOf(redirect_url))[k]

Succeeds == {200, 201, 204}
MappedErrors == {400, 401, 403, 404, 406, 422, 429, 500}

\* the exception the table of MoneyBird's documentation gives a status
TableKind(s) ==
    CASE s \in {400, 401} -> "Unauthorized"
      [] s \in {403, 429} -> "Throttled"
      [] s \in {404, 406} -> "NotFound"
      [] s = 422 -> "InvalidData"
      [] s = 500 -> "ServerError"
      [] OTHER -> "APIError"

\* C1: _process_response, called with the default empty expected list,
\* returns for 200, 201 and 204, raises the table's exception for 400, 401,
\* 403, 404, 406, 422, 429 and 500, and raises the generic APIError with the
\* description "API response contained unknown status code" for every other
\* status; the kind of outcome is a function of the status alone.
C1_StatusDecidesOutcome ==
    last.op = "_process_response" =>
        LET s == last.response.status_code
            o == last.out
        IN  IF s \in Succeeds THEN o.kind = "return"
            ELSE /\ o.kind = "raise"
                 /\ o.exc = TableKind(s)
                 /\ s \notin MappedErrors =>
                        o.description = Str("API response contained unknown status code")

C1_Witness ==
    /\ last.op = "_process_response"
    /\ last.response.status_code = 999
    /\ last.response.body = Json(Dict("error" :> Str("bad")))
    /\ last.out.exc = "APIError"

\* C2: with a non-empty expected state and a redirect that carries a code
\* and no error, obtain_token raises ValueError and obtains no token
\* whenever the redirect does not carry exactly that state, a redirect
\* without any state parameter included.
C2_StateMismatchIsValueError ==
    (/\ last.op = "obtain_token"
     /\ last.state # ""
     /\ Carries(last.redirect_url, "code")
     /\ ~Carries(last.redirect_url, "error")
     /\ \/ ~Carries(last.redirect_url, "state")
        \/ Carried(last.redirect_url, "state") # <<last.state>>)
    => /\ last.out.kind = "raise"
       /\ last.out.exc = "ValueError"
       /\ last.posts = <<>>

\* C3: for a redirect that carries an error parameter, obtain_token raises
\* an OAuthError whose error_code is the provider's error code, a string,
\* and whose message carries the error_description, or "Unknown reason".
C3_ErrorCodeIsTheProvidersString ==
    (last.op = "obtain_token" /\ Carries(last.redirect_url, "error"))
    => /\ last.out.kind = "raise"
       /\ last.out.exc = "OAuthError"
       /\ last.out.error_code = Str(Carried(last.redirect_url, "error")[1])
       /\ last.out.msg =
            "OAuth error (" \o Carried(last.redirect_url, "error")[1] \o "): "
            \o (IF Carries(last.redirect_url, "error_description")
                THEN Carried(last.redirect_url, "error_description")[1]
                ELSE "Unknown reason")

\* C4: for a redirect that carries neither a code nor an error, a URL with
\* an empty or without any query string included, obtain_token raises
\* ValueError, whatever the expected state.
C4_NoCodeIsValueError ==
    (/\ last.op = "obtain_token"
     /\ ~Carries(last.redirect_url, "code")
     /\ ~Carries(last.redirect_url, "error"))
    => /\ last.out.kind = "raise"
       /\ last.out.exc = "ValueError"
       /\ last.posts = <<>>

\* C5 as stated: whenever obtain_token returns t, the stored token is t,
\* is_ready() is true and a session from get_session() carries
\* Authorization: Bearer t.
C5_ReadyAfterObtain ==
    (last.op = "obtain_token" /\ last.out.kind = "return")
    => /\ auth_token = last.out.value.v
       /\ is_ready
       /\ get_session["Authorization"] = "Bearer " \o last.out.value.v

\* C5 amended: whenever obtain_token returns t, the stored token is t, a
\* session from get_session() carries Authorization: Bearer t, and
\* is_ready() is true exactly when t is not empty.
C5_StoredAfterObtain ==
    (last.op = "obtain_token" /\ last.out.kind = "return")
    => /\ auth_token = last.out.value.v
       /\ is_ready <=> last.out.value.v # ""
       /\ get_session["Authorization"] = "Bearer " \o last.out.value.v

C5_Witness ==
    /\ last.op = "obtain_token"
    /\ last.out = Return(Str("tokA"))
    /\ last.state = "abc"
    /\ auth_token = "tokA"
    /\ is_ready

\* whether the decoded token response is an object with the field k
HasField(r, k) == r.json /\ r.value.t = "dict" /\ k \in DOMAIN r.value.v

\* C6: once the redirect has passed, the token endpoint's response decides:
\* a response with an error field raises OAuthError carrying that error code,
\* even when an access_token is there too; a JSON response with neither an
\* error nor an access_token field raises ValueError; a response that is not
\* JSON raises ValueError.
C6_ResponseDecides ==
    (last.op = "obtain_token" /\ last.posts # <<>>)
    => LET r == last.response
           o == last.out
       IN  IF ~r.json THEN o.kind = "raise" /\ o.exc = "ValueError"
           ELSE IF HasField(r, "error")
           THEN /\ o.kind = "raise"
                /\ o.exc = "OAuthError"
                /\ o.error_code = r.value.v["error"]
           ELSE IF ~HasField(r, "access_token")
           THEN o.kind = "raise" /\ o.exc = "ValueError"
           ELSE o.kind = "return"

\* C7: is_ready() is true exactly when the token is not empty, the token is
\* the value the strategy was constructed with or the last value set, and a
\* session from get_session() carries Authorization: Bearer <token>.
C7_TokenAuthentication ==
    /\ is_ready <=> auth_token # ""
    /\ last.op \in {"new", "set_token"} => auth_token = last.auth_token
    /\ get_session["Authorization"] = "Bearer " \o auth_token

C7_Witness ==
    /\ last.op = "set_token"
    /\ last.auth_token = "tokB"
    /\ auth_token = "tokB"
    /\ is_ready
    /\ constructed
    /\ session["Authorization"] = "Bearer tokA"

\* the headers of a client's session made when the strategy's token is tok
SessionOf(tok) ==
    [h \in {"Authorization", "User-Agent", "Accept", "Accept-Encoding", "Connection"} |->
        CASE h = "Authorization" -> "Bearer " \o tok
          [] h = "User-Agent" -> "MoneyBird for Python 0.1.3"
          [] h = "Accept" -> "application/json"
          [] h = "Accept-Encoding" -> "gzip, deflate"
          [] h = "Connection" -> "keep-alive"]

\* C8: the client's session carries the strategy's token as it was at the
\* latest construction or renew_session: those two make the session from the
\* current token (with the client's User-Agent and Accept, and the rest of a
\* new session's headers as requests makes them), every other call
\* leaves the session as it is, and a request is sent with the session's
\* headers.
C8_SessionFollowsRenewal ==
    /\ [][constructed' =>
            IF last'.op \in {"__init__", "renew_session"}
            THEN session' = SessionOf(auth_token')
            ELSE session' = session]_vars
    /\ [](last.op \in {"get", "post", "patch", "delete"} =>
            last.request.headers = session)

C8_Witness ==
    /\ constructed
    /\ last.op = "get"
    /\ auth_token = "tokB"
    /\ session = SessionOf("tokA")
    /\ last.request.headers["Authorization"] = "Bearer tokA"

\* C9: the URL _get_url builds is the concatenation base_url + version +
\* "/" + (administration_id + "/", when given) + resource_path + ".json",
\* for every resource path.
C9_UrlIsConcatenation ==
    last.op = "_get_url" =>
        last.out.value.v =
            "https://moneybird.com/api/" \o "v2" \o "/"
            \o (IF last.administration_id = None THEN ""
                ELSE IntToStr(last.administration_id.v) \o "/")
            \o PathText(last.resource_path) \o ".json"

\* C10: a body that is not JSON, or JSON without an error field, causes no
\* failure of its own: a success status returns None when the body does not
\* decode and the decoded value otherwise; a mapped error status raises the
\* table's exception with the message "API error <status>", followed by
\* ": <error>" exactly when the body is a JSON object with a non-empty error
\* field.
C10_BodyNeverFailsTheCall ==
    last.op = "_process_response" =>
        LET s == last.response.status_code
            b == last.response.body
            o == last.out
            described ==
                /\ b.json
                /\ b.value.t = "dict"
                /\ "error" \in DOMAIN b.value.v
                /\ Truthy(b.value.v["error"])
        IN  /\ s \in Succeeds =>
                /\ o.kind = "return"
                /\ o.value = IF b.json THEN b.value ELSE None
            /\ s \in MappedErrors =>
                /\ o.kind = "raise"
                /\ o.exc = TableKind(s)
                /\ o.msg = IF described
                           THEN "API error " \o IntToStr(s) \o ": "
                                \o Format(b.value.v["error"])
                           ELSE "API error " \o IntToStr(s)

C10_Witness ==
    /\ last.op = "_process_response"
    /\ last.response.status_code = 404
    /\ last.response.body = Json(List(<<"error">>))
    /\ last.out.exc = "NotFound"
    /\ last.out.msg = "API error 404"

\* urllib.parse.unquote_plus on one piece
UnquotePiece(c) ==
    CASE c = "+" -> " "
      [] c = "%2B" -> "+"
      [] c = "%26" -> "&"
      [] c = "%3D" -> "="
      [] c = "%3A" -> ":"
      [] c = "%2F" -> "/"
      [] c = "%3F" -> "?"
      [] c = "%25" -> "%"
      [] OTHER -> c

\* the parameters a URL shows to whoever receives it: the name=value fields
\* of its query string, the values decoded
ShownParams(url) ==
    LET fields == Split(QueryOf(url), "&")
    IN  [i \in 1..Len(fields) |->
            LET nv == SplitOnce(fields[i], "=")
            IN  [name |-> Text(nv[1]),
                 value |-> IF Len(nv) = 2
                           THEN Text([j \in 1..Len(nv[2]) |-> UnquotePiece(nv[2][j])])
                           ELSE "(none)"]]

\* C11: authorize_url returns (url, s): url is the authorization endpoint
\* followed by exactly the five parameters response_type=code, client_id,
\* redirect_uri, scope (the scopes joined by single spaces) and state = s; s
\* is the state passed, unchanged, whenever one is passed, and a generated
\* identifier of more than 16 characters only when none is; the call leaves
\* the token and the readiness as they were.
C11_AuthorizeUrl ==
    /\ [](last.op = "authorize_url" =>
            LET url == last.out.value.url
                s == last.out.value.state
                shown == ShownParams(url)
            IN  /\ Text(SplitOnce(url, "?")[1]) = "https://moneybird.com/oauth/authorize/"
                /\ Len(SplitOnce(url, "?")) = 2
                /\ Len(shown) = 5
                /\ {shown[i] : i \in 1..5} =
                     {[name |-> "response_type", value |-> "code"],
                      [name |-> "client_id", value |-> "test_client"],
                      [name |-> "redirect_uri", value |-> "https://example.test/login/oauth/"],
                      [name |-> "scope", value |-> Join(" ", last.scope)],
                      [name |-> "state", value |-> s.v]}
                /\ last.state # None => s = last.state
                /\ last.state = None =>
                     /\ Len(s.v) > 16
                     /\ \E u \in Uuids : s.v = Text(SelectSeq(u, LAMBDA c : c # "-")))
    /\ [][last'.op = "authorize_url" =>
            auth_token' = auth_token /\ is_ready' = is_ready]_vars

C11_Witness ==
    /\ last.op = "authorize_url"
    /\ last.scope = <<"one", "two">>
    /\ last.state = StrOf(<<>>)
    /\ last.out.value.state.v = ""
    /\ auth_token = "tokA"

\* C12: obtain_token sends the token-endpoint POST (grant_type
\* authorization_code, the redirect's code, redirect_uri, client_id,
\* client_secret) exactly when the redirect carries no error, carries a code
\* and carries the expected state (or no state is expected), and then sends
\* it once, also when the exchange fails; otherwise it raises and sends
\* nothing.  The checks are made in that order: an error parameter wins over
\* a missing code and a wrong state, a missing code wins over a wrong state.
C12_PostOnlyAfterChecks ==
    last.op = "obtain_token" =>
        LET u == last.redirect_url
            noError == ~Carries(u, "error")
            hasCode == Carries(u, "code")
            stateOk == \/ last.state = ""
                       \/ Carries(u, "state") /\ Carried(u, "state") = <<last.state>>
            passed == noError /\ hasCode /\ stateOk
        IN  /\ Len(last.posts) <= 1
            /\ passed <=> last.posts # <<>>
            /\ passed =>
                  last.posts = << [url |-> "https://moneybird.com/oauth/token/",
                                   grant_type |-> "authorization_code",
                                   code |-> Carried(u, "code")[1],
                                   redirect_uri |-> "https://example.test/login/oauth/",
                                   client_id |-> "test_client",
                                   client_secret |-> "test_secret"] >>
            /\ ~passed => last.out.kind = "raise" /\ last.response = NoResponse
            /\ ~noError => last.out.exc = "OAuthError"
            /\ (noError /\ ~hasCode) =>
                  /\ last.out.exc \in {"ValueError", "IndexError"}
                  /\ last.out.msg # "CSRF attack detected: the state in the provided URL does not equal the given state"

C12_Witness ==
    /\ last.op = "obtain_token"
    /\ last.state = "abc"
    /\ Carries(last.redirect_url, "state")
    /\ Carried(last.redirect_url, "state") = <<"abc">>
    /\ Len(last.posts) = 1
    /\ last.posts[1].code = "xyz"
    /\ last.response = NotJson
    /\ last.out.kind = "raise"

\* C13: a call of obtain_token that raises, for whatever reason, leaves the
\* stored token and is_ready() as they were before the call; the stored
\* token changes only in set_token and in a call of obtain_token that
\* returns.
C13_FailureKeepsToken ==
    /\ [][(last'.op = "obtain_token" /\ last'.out.kind = "raise")
            => (auth_token' = auth_token /\ is_ready' = is_ready)]_vars
    /\ [][auth_token' # auth_token
            => \/ last'.op = "set_token"
               \/ last'.op = "obtain_token" /\ last'.out.kind = "return"]_vars

C13_Witness ==
    /\ last.op = "obtain_token"
    /\ last.out.kind = "raise"
    /\ last.out.exc = "OAuthError"
    /\ Len(last.posts) = 1
    /\ "access_token" \in DOMAIN last.response.value.v
    /\ auth_token = "tokB"
    /\ is_ready

====
